---- MODULE Spec2Model ----
(***************************************************************************)
(* A model of the ISO 8583 codec of internal/iso8583 (Message, Pack,       *)
(* Unpack and the LLVAR/LLLVAR helpers).  Strings and byte slices are      *)
(* sequences of byte values 0..255; a uint64 bitmap is the set of its set  *)
(* bits, numbered 1..64 from the most significant bit, and is turned into  *)
(* its 8 big-endian bytes and back by PutUint64 and Uint64.                *)
(***************************************************************************)
EXTENDS Integers, Sequences, FiniteSets, TLC

\* ------------------------------------------------------------------ bounds
\* the largest number of fields a message under construction may hold
MaxFields == 2
\* the largest number of bytes appended to, or cut from the end of, a frame
MaxTamper == 2
\* the largest number of chunks in the body of a frame received from the wire
MaxChunks == 2

\* ------------------------------------------------------------- byte values
Ch0 == 48
Ch1 == 49
ChA == 65
ChX == 88
ChPlus == 43
ChMinus == 45

Repeat(c, n) == [i \in 1..n |-> c]

\* ------------------------------------------------- the field specification
FmtFixedNum == 0
FmtFixedAns == 1
FmtLLVAR == 2
FmtLLLVAR == 3

FS(c, l) == [Codec |-> c, Len |-> l]

CommonSpecNums ==
  {2, 3, 4, 7, 11, 12, 13, 14, 22, 23, 24, 25, 32, 35, 37, 38, 39, 41, 42, 43,
   48, 49, 52, 53, 54, 55, 60, 61, 62, 63, 70, 102}

CommonSpec == [f \in CommonSpecNums |->
  CASE f \in {2, 32, 35, 102} -> FS(FmtLLVAR, 0)
    [] f \in {48, 54, 55, 60, 61, 62, 63} -> FS(FmtLLLVAR, 0)
    [] f \in {3, 11, 12} -> FS(FmtFixedNum, 6)
    [] f = 4 -> FS(FmtFixedNum, 12)
    [] f = 7 -> FS(FmtFixedNum, 10)
    [] f \in {13, 14} -> FS(FmtFixedNum, 4)
    [] f \in {22, 23, 24, 70} -> FS(FmtFixedNum, 3)
    [] f = 25 -> FS(FmtFixedNum, 2)
    [] f = 37 -> FS(FmtFixedAns, 12)
    [] f = 38 -> FS(FmtFixedAns, 6)
    [] f = 39 -> FS(FmtFixedAns, 2)
    [] f = 41 -> FS(FmtFixedAns, 8)
    [] f = 42 -> FS(FmtFixedAns, 15)
    [] f = 43 -> FS(FmtFixedAns, 40)
    [] f = 49 -> FS(FmtFixedAns, 3)
    [] f = 52 -> FS(FmtFixedAns, 16)
    [] f = 53 -> FS(FmtFixedNum, 16)]

\* ---------------------------------------------------------------- Message
NoFields == [f \in {} |-> <<>>]

New(mti) == [MTI |-> mti, Fields |-> NoFields]

SetField(msg, field, value) ==
  [msg EXCEPT !.Fields =
     [g \in (DOMAIN msg.Fields) \cup {field} |->
        IF g = field THEN value ELSE msg.Fields[g]]]

Has(msg, field) == field \in DOMAIN msg.Fields

\* ------------------------------------------------------ integer formatting
Pow10(k) == IF k = 0 THEN 1 ELSE IF k = 1 THEN 10 ELSE IF k = 2 THEN 100
            ELSE IF k = 3 THEN 1000 ELSE IF k = 4 THEN 10000
            ELSE IF k = 5 THEN 100000 ELSE 1000000

\* the number of decimal digits of n >= 0
NumDigits(n) == IF n < 10 THEN 1 ELSE IF n < 100 THEN 2 ELSE IF n < 1000 THEN 3
                ELSE IF n < 10000 THEN 4 ELSE IF n < 100000 THEN 5
                ELSE IF n < 1000000 THEN 6 ELSE 7

\* fmt.Sprintf("%0<w>d", n) for 0 <= n < 10^7: at least w digits, zero-padded
SprintfPad(w, n) ==
  LET d == IF NumDigits(n) > w THEN NumDigits(n) ELSE w
  IN [i \in 1..d |-> Ch0 + ((n \div Pow10(d - i)) % 10)]

IsDigit(c) == c >= Ch0 /\ c <= Ch0 + 9

RECURSIVE DecValue(_)
DecValue(s) == IF s = <<>> THEN 0
               ELSE 10 * DecValue(SubSeq(s, 1, Len(s) - 1)) + (s[Len(s)] - Ch0)

\* strconv.Atoi on a short string: an optional sign, then one or more digits
Atoi(s) ==
  LET signed == Len(s) > 0 /\ s[1] \in {ChPlus, ChMinus}
      ds == IF signed THEN Tail(s) ELSE s
  IN IF Len(ds) < 1 \/ \E i \in 1..Len(ds) : ~IsDigit(ds[i])
       THEN [ok |-> FALSE, n |-> 0]
       ELSE [ok |-> TRUE,
             n |-> IF signed /\ s[1] = ChMinus THEN 0 - DecValue(ds)
                   ELSE DecValue(ds)]

\* ------------------------------------------------------------ LLVAR codecs
PackOK(bytes) == [err |-> "", field |-> 0, out |-> bytes]
PackErr(e, f) == [err |-> e, field |-> f, out |-> <<>>]

packLLVAR(v) ==
  IF Len(v) > 99 THEN PackErr("value too long for LLVAR", 0)
  ELSE PackOK(SprintfPad(2, Len(v)) \o v)

packLLLVAR(v) ==
  IF Len(v) > 999 THEN PackErr("value too long for LLLVAR", 0)
  ELSE PackOK(SprintfPad(3, Len(v)) \o v)

\* b[lo:hi] of a Go slice whose capacity is its length: out of range panics
SliceOK(b, lo, hi) == 0 <= lo /\ lo <= hi /\ hi <= Len(b)
Slice(b, lo, hi) == SubSeq(b, lo + 1, hi)

VarRes(k, e, v, o) == [kind |-> k, err |-> e, v |-> v, off |-> o]

\* the body shared by unpackLLVAR (w = 2) and unpackLLLVAR (w = 3)
unpackVar(b, off, w, name) ==
  IF off + w > Len(b) THEN VarRes("err", "truncated " \o name \o " length", <<>>, off)
  ELSE LET a == Atoi(Slice(b, off, off + w))
           o2 == off + w
       IN IF ~a.ok THEN VarRes("err", "invalid " \o name \o " length", <<>>, off)
          ELSE IF o2 + a.n > Len(b)
            THEN VarRes("err", "truncated " \o name \o " value", <<>>, o2)
          ELSE IF ~SliceOK(b, o2, o2 + a.n)
            THEN VarRes("panic", "slice bounds out of range", <<>>, o2)
          ELSE VarRes("ok", "", Slice(b, o2, o2 + a.n), o2 + a.n)

unpackLLVAR(b, off) == unpackVar(b, off, 2, "LLVAR")

unpackLLLVAR(b, off) == unpackVar(b, off, 3, "LLLVAR")

\* ---------------------------------------------------------------- bitmaps
Pow2(k) == IF k = 0 THEN 1 ELSE IF k = 1 THEN 2 ELSE IF k = 2 THEN 4
           ELSE IF k = 3 THEN 8 ELSE IF k = 4 THEN 16 ELSE IF k = 5 THEN 32
           ELSE IF k = 6 THEN 64 ELSE 128

\* binary.BigEndian.PutUint64 of the word whose set bits are `bits`
\* (bit k of 1..64 is 1 << (64 - k))
PutUint64(bits) ==
  [j \in 1..8 |->
     LET w(i) == IF (8 * (j - 1) + i) \in bits THEN Pow2(8 - i) ELSE 0
     IN w(1) + w(2) + w(3) + w(4) + w(5) + w(6) + w(7) + w(8)]

\* binary.BigEndian.Uint64 of 8 bytes, as the set of set bits
Uint64(bs) ==
  {k \in 1..64 : (bs[((k - 1) \div 8) + 1] \div Pow2(7 - ((k - 1) % 8))) % 2 = 1}

\* binary.BigEndian.PutUint16(mli, uint16(n))
PutUint16(n) == <<(n % 65536) \div 256, n % 256>>

\* binary.BigEndian.Uint16
Uint16(bs) == bs[1] * 256 + bs[2]

\* ------------------------------------------------------------------- Pack
\* Unsupported without the test `f == 1`
UnsupportedMut(msg) == {f \in DOMAIN msg.Fields : f < 1 \/ f > 128}

\* the field numbers the range check of Pack rejects
Unsupported(msg) == {f \in DOMAIN msg.Fields : f < 1 \/ f > 128 \/ f = 1}

\* PrimaryBits without the bit that announces the secondary bitmap
PrimaryBitsMut(msg) == {f \in DOMAIN msg.Fields : f <= 64}

\* the words built by the closure `set` over the fields of the message
PrimaryBits(msg) ==
  LET secondary == {f - 64 : f \in {g \in DOMAIN msg.Fields : g > 64}}
  IN {f \in DOMAIN msg.Fields : f <= 64}
       \cup (IF secondary # {} THEN {1} ELSE {})

SecondaryBits(msg) == {f - 64 : f \in {g \in DOMAIN msg.Fields : g > 64}}

FixedField(v, n, e) == IF Len(v) # n THEN PackErr(e, 0) ELSE PackOK(v)

\* the switch of Pack on the field number
EncodeField(f, v) ==
  CASE f = 7 -> FixedField(v, 10, "DE7 must be 10 digits")
    [] f = 11 -> FixedField(v, 6, "DE11 must be 6 digits")
    [] f = 48 -> LET r == packLLLVAR(v)
                 IN IF r.err # "" THEN PackErr("DE48: " \o r.err, 0) ELSE r
    [] f = 70 -> FixedField(v, 3, "DE70 must be 3 digits")
    [] f = 102 -> LET r == packLLVAR(v)
                  IN IF r.err # "" THEN PackErr("DE102: " \o r.err, 0) ELSE r
    [] OTHER -> PackErr("field not implemented in skeleton", f)

\* the least element of a non-empty set of integers
Min(S) == CHOOSE x \in S : \A y \in S : x <= y

\* the loop `for f := 2; f <= 128; f++` of Pack, from f on, body written so
\* far; the iterations that `continue` on an absent field are stepped over
RECURSIVE PackLoop(_, _, _)
PackLoop(msg, f, body) ==
  LET rest == {g \in DOMAIN msg.Fields : g >= f /\ g <= 128}
  IN IF rest = {} THEN PackOK(body)
     ELSE LET g == Min(rest)
              r == EncodeField(g, msg.Fields[g])
          IN IF r.err # "" THEN r ELSE PackLoop(msg, g + 1, body \o r.out)

\* PrependMLI with the length written into a single byte
PrependMLIMut(body) == <<0, Len(body) % 256>> \o body

\* the MLI prefix of Pack
PrependMLI(body) == PutUint16(Len(body)) \o body

\* Message.Pack; `first` is the unsupported field the map iteration meets
\* first (the iteration order of a Go map is unspecified)
Pack(msg, first) ==
  IF Len(msg.MTI) # 4 THEN PackErr("invalid MTI", 0)
  ELSE IF Unsupported(msg) # {} THEN PackErr("unsupported field", first)
  ELSE LET header == msg.MTI \o PutUint64(PrimaryBits(msg))
                       \o (IF SecondaryBits(msg) # {}
                             THEN PutUint64(SecondaryBits(msg)) ELSE <<>>)
           r == PackLoop(msg, 2, header)
       IN IF r.err # "" THEN r ELSE PackOK(PrependMLI(r.out))

FirstChoices(msg) == IF Unsupported(msg) = {} THEN {0} ELSE Unsupported(msg)

\* ----------------------------------------------------------------- Unpack
UnpackOK(msg) == [kind |-> "ok", err |-> "", field |-> 0, msg |-> msg]
UnpackErr(e, f) == [kind |-> "err", err |-> e, field |-> f, msg |-> New(<<>>)]
UnpackPanic == [kind |-> "panic", err |-> "slice bounds out of range",
                field |-> 0, msg |-> New(<<>>)]

\* the closure `present` of Unpack
Present(primary, secondary, bit) ==
  IF bit <= 64 THEN bit \in primary ELSE (bit - 64) \in secondary

FixedRes(p, off, n, e) ==
  IF off + n > Len(p) THEN VarRes("err", e, <<>>, off)
  ELSE VarRes("ok", "", Slice(p, off, off + n), off + n)

WrapVar(r, pre) == IF r.kind = "err" THEN [r EXCEPT !.err = pre \o r.err] ELSE r

\* NotImplemented that takes an unknown field for an empty one
NotImplementedMut(f, off) == VarRes("ok", "", <<>>, off)

\* the default case of the switch of Unpack
NotImplemented(f, off) ==
  VarRes("notimpl", "field not implemented in skeleton", <<>>, off)

\* the switch of Unpack on the field number
DecodeField(f, p, off) ==
  CASE f = 7 -> FixedRes(p, off, 10, "truncated DE7")
    [] f = 11 -> FixedRes(p, off, 6, "truncated DE11")
    [] f = 48 -> WrapVar(unpackLLLVAR(p, off), "DE48: ")
    [] f = 70 -> FixedRes(p, off, 3, "truncated DE70")
    [] f = 102 -> WrapVar(unpackLLVAR(p, off), "DE102: ")
    [] OTHER -> NotImplemented(f, off)

LoopRes(k, e, f, msg, off) ==
  [kind |-> k, err |-> e, field |-> f, msg |-> msg, off |-> off]

\* the loop `for f := 2; f <= 128; f++` of Unpack, from f up to hi; the
\* iterations that `continue` on a clear bit are stepped over
RECURSIVE UnpackLoop(_, _, _, _, _, _, _)
UnpackLoop(p, primary, secondary, f, hi, off, msg) ==
  LET rest == {g \in f..hi : Present(primary, secondary, g)}
  IN IF rest = {} THEN LoopRes("ok", "", 0, msg, off)
     ELSE LET g == Min(rest)
              r == DecodeField(g, p, off)
          IN CASE r.kind = "ok" ->
                    UnpackLoop(p, primary, secondary, g + 1, hi, r.off,
                               SetField(msg, g, r.v))
               [] r.kind = "notimpl" -> LoopRes("err", r.err, g, msg, off)
               [] r.kind = "panic" -> LoopRes("panic", r.err, 0, msg, off)
               [] OTHER -> LoopRes("err", r.err, 0, msg, off)

\* Incomplete that forgets the two bytes of the MLI itself
IncompleteMut(b, mli) == Len(b) < mli

\* the check of the buffer against the MLI
Incomplete(b, mli) == Len(b) - 2 < mli

\* ExtraBytes that only notices fields running past the end of p
ExtraBytesMut(p, off) == off > Len(p)

\* the check after the loop that the fields consumed the whole of p
ExtraBytes(p, off) == off # Len(p)

Unpack(b) ==
  IF Len(b) < 2 THEN UnpackErr("buffer too short for MLI", 0)
  ELSE LET mli == Uint16(SubSeq(b, 1, 2))
       IN IF Incomplete(b, mli) THEN UnpackErr("incomplete message", 0)
          ELSE IF ~SliceOK(b, 2, 2 + mli) THEN UnpackPanic
          ELSE LET p == Slice(b, 2, 2 + mli)
               IN IF Len(p) < 12 THEN UnpackErr("too short for MTI+bitmap", 0)
                  ELSE LET mti == Slice(p, 0, 4)
                           primary == Uint64(Slice(p, 4, 12))
                           hasSec == 1 \in primary
                       IN IF hasSec /\ Len(p) < 12 + 8
                            THEN UnpackErr("too short for secondary bitmap", 0)
                          ELSE LET r == UnpackLoop(p, primary,
                                          IF hasSec THEN Uint64(Slice(p, 12, 20))
                                          ELSE {},
                                          2, 128,
                                          IF hasSec THEN 20 ELSE 12, New(mti))
                               IN CASE r.kind = "err" -> UnpackErr(r.err, r.field)
                                    [] r.kind = "panic" -> UnpackPanic
                                    [] OTHER ->
                                       IF ExtraBytes(p, r.off)
                                         THEN UnpackErr("extra bytes at end", 0)
                                       ELSE UnpackOK(r.msg)

\* ------------------------------------------------------------ input values
Mti0200 == <<48, 50, 48, 48>>
Mti123 == <<49, 50, 51>>
MTIs == {Mti0200, Mti123}

\* field numbers given to Set: in and out of range, with and without a codec
FieldNums == {1, 2, 7, 11, 39, 48, 55, 70, 100, 102, 129}

ValueLens(f) ==
  IF f \notin CommonSpecNums THEN {3}
  ELSE CASE CommonSpec[f].Codec = FmtLLVAR -> {0, 2, 99, 100}
         [] CommonSpec[f].Codec = FmtLLLVAR -> {3, 999, 1000}
         [] OTHER -> {CommonSpec[f].Len, CommonSpec[f].Len - 1}

Values(f) ==
  {Repeat(c, n) : c \in {Ch1, ChA}, n \in {l \in ValueLens(f) : l < 99}}
    \cup {Repeat(Ch1, n) : n \in {l \in ValueLens(f) : l >= 99}}

\* pieces of the body of a frame received from the wire
Chunks ==
  { <<49, 50, 51, 52, 53, 54>>, <<51, 48, 49>>,
    <<Ch0, 50>>, <<ChPlus, Ch1>>, <<ChMinus, Ch1>>, <<ChMinus, Ch0>>,
    <<Ch0, Ch0, 50>>, <<ChPlus, Ch0, 50>>, <<ChMinus, Ch0, Ch1>>,
    <<ChA, 66>>, <<ChA>> }

RECURSIVE Bodies(_)
Bodies(n) ==
  IF n = 0 THEN {<<>>}
  ELSE Bodies(n - 1) \cup {b \o c : b \in Bodies(n - 1), c \in Chunks}

\* bits set in the bitmaps of a received frame
RawFields == {11, 48, 100, 102}

\* a frame as a peer may send it: the bitmaps of `fields` (with a secondary
\* bitmap when sec), a body, `extra` bytes after the declared end and an MLI
\* that declares `short` bytes more than the frame carries
RawFrame(mti, fields, sec, body, extra, short) ==
  LET secondary == {f - 64 : f \in {g \in fields : g > 64}}
      primary == {f \in fields : f <= 64} \cup (IF sec THEN {1} ELSE {})
      p == mti \o PutUint64(primary)
             \o (IF sec THEN PutUint64(secondary) ELSE <<>>) \o body
  IN PutUint16(Len(p) + short) \o p \o Repeat(ChX, extra)

\* bits set by hand in the bitmap of a packed frame
TamperBits == {3, 39, 100, 128}

\* the frame b with bit n set in its bitmaps
WithBit(b, n) ==
  LET at == 2 + 4 + ((n - 1) \div 8) + 1
      w == Pow2(7 - ((n - 1) % 8))
  IN [b EXCEPT ![at] = IF (b[at] \div w) % 2 = 1 THEN b[at] ELSE b[at] + w]

HasSecondary(b) == Len(b) >= 22 /\ b[7] >= 128

\* ------------------------------------------------------------ echo helpers
Mti0800 == <<48, 56, 48, 48>>
Mti0810 == <<48, 56, 49, 48>>
Mti0210 == <<48, 50, 49, 48>>
Str301 == <<51, 48, 49>>
Str999 == <<57, 57, 57>>

\* time.Now().UTC().Format("0102150405") of the time t: MMDDhhmmss
FormatTime(t) ==
  SprintfPad(2, t.mo) \o SprintfPad(2, t.d) \o SprintfPad(2, t.h)
    \o SprintfPad(2, t.mi) \o SprintfPad(2, t.s)

\* NewEchoRequest that forgets to reduce the STAN to six digits
NewEchoRequestMut(sn, t) ==
  SetField(SetField(SetField(New(Mti0800), 7, FormatTime(t)),
                    11, SprintfPad(6, sn)),
           70, Str301)

\* NewEchoRequest(sn) called at the time t, for sn >= 0
NewEchoRequest(sn, t) ==
  SetField(SetField(SetField(New(Mti0800), 7, FormatTime(t)),
                    11, SprintfPad(6, sn % 1000000)),
           70, Str301)

\* IsEchoResponse that does not look for DE11
IsEchoResponseMut(msg) ==
  IF msg.MTI # Mti0810 THEN FALSE
  ELSE IF ~Has(msg, 70) \/ msg.Fields[70] # Str301 THEN FALSE
  ELSE TRUE

IsEchoResponse(msg) ==
  IF msg.MTI # Mti0810 THEN FALSE
  ELSE IF ~Has(msg, 70) \/ msg.Fields[70] # Str301 THEN FALSE
  ELSE Has(msg, 11)

\* the arguments given to NewEchoRequest
Stans == {0, 7, 123456, 999999, 1000000, 1000007, 2123456}
Times == {[mo |-> 1, d |-> 2, h |-> 3, mi |-> 4, s |-> 5],
          [mo |-> 12, d |-> 31, h |-> 23, mi |-> 59, s |-> 59]}

\* the messages given to IsEchoResponse
RECURSIVE WithFields(_, _)
WithFields(msg, fvs) ==
  IF fvs = {} THEN msg
  ELSE LET fv == CHOOSE x \in fvs : TRUE
       IN WithFields(SetField(msg, fv[1], fv[2]), fvs \ {fv})

EchoCandidates ==
  {WithFields(New(mti), f70 \cup f11 \cup f7) :
     mti \in {Mti0810, Mti0800, Mti0210},
     f70 \in {{}, {<<70, Str301>>}, {<<70, Str999>>}, {<<70, <<51, 48, 48>>>>}},
     f11 \in {{}, {<<11, <<48, 48, 48, 48, 48, 55>>>>},
              {<<11, <<49, 50, 51, 52, 53, 54>>>>}},
     f7 \in {{}, {<<7, FormatTime([mo |-> 1, d |-> 2, h |-> 3, mi |-> 4, s |-> 5])>>}}}

\* --------------------------------------------------------- state machine
VARIABLES
  m,         \* the message under construction
  packres,   \* the result of the last Pack
  buf,       \* the frame given to Unpack
  how,       \* how buf was obtained
  unpackres, \* the result of the last Unpack
  pc,        \* "build", "packfail", "packed", "framed", "unpacked", "repacked"
  isEcho,    \* "true" or "false" as the last IsEchoResponse(m), "none" before it
  stanIn     \* the argument of the NewEchoRequest that built m, -1 if none

VARIABLES
  base,      \* cfg.RetryBacko, in seconds
  backoff,   \* the local backoff of loop, in seconds
  lpc,       \* where the goroutine of loop is
  closed,    \* c.closed
  conn,      \* c.conn: 0 is nil, k > 0 the k-th socket dialled
  nsock,     \* sockets dialled so far
  sockOpen,  \* the sockets not closed yet
  cpc,       \* where the caller of Close is: "idle", "closing", "returned"
  st,        \* st.Conn, the Health record the callbacks write
  cb,        \* the last callback emitted: "none", "up", "msg", "down"
  cbPrev,    \* the callback emitted before it
  fails,     \* dial failures since the last successful dial
  slept,     \* length of the time.Sleep after the last dial failure, 0 if none yet
  grown,     \* the backoff was above the base when the last dial succeeded
  lateDials, \* dials begun with c.closed set (at most 2 are counted)
  endedBy,   \* how the last session ended: "none", "error", "flag", "nil", and
             \* "mli" for an invalid MLI, told from "error" until the next dial ends
  upOld,     \* st.Up before the last write to it
  upAt,      \* the time of the callback that last wrote st.Up
  rxFrame,   \* the last frame given to onMsg, <<>> if none
  snap,      \* what the last GET /connections read, NoSnap if none
  spc,       \* per caller of Send: "off", "call", "got", "write", "ret"
  sc,        \* per caller of Send: its local conn
  sres,      \* per caller of Send: what its last Send returned
  tpc,       \* where the echo ticker is: "off", "idle", "send", "stopped"
  stan,      \* the STAN counter of the gateway
  ticks,     \* ticks of the echo ticker so far, the clock of the gateway
  tobs       \* the st.Up the last tick observed

codecVars == <<m, packres, buf, how, unpackres, pc>>
echoVars == <<isEcho, stanIn>>
loopVars == <<base, backoff, lpc, closed, conn, nsock, sockOpen, cpc, st>>
ghostVars == <<cb, cbPrev, upOld, upAt, rxFrame, fails, slept, grown, lateDials, endedBy>>
sendVars == <<spc, sc, sres>>
tickVars == <<tpc, stan, ticks, tobs>>
userVars == <<sendVars, tickVars>>
nonCodecVars == <<echoVars, snap, loopVars, ghostVars, userVars>>

vars == <<codecVars, echoVars, snap, loopVars, ghostVars, userVars>>

\* ------------------------------------------------- Connector: definitions
MaxFails == 5
MaxSocks == 2
MaxRx == 1

BackoffCap == 30
DefaultBackoff == 2

\* the values of cfg.RetryBacko
Bases == {0, 2, 7}

\* `backoff := c.cfg.RetryBacko; if backoff <= 0 { backoff = 2 * time.Second }`
BaseBackoff(cfgBase) == IF cfgBase <= 0 THEN DefaultBackoff ELSE cfgBase

\* a loop that keeps the backoff it had after a successful dial
ResetBackoffMut(b, cfgBase) == b

\* the backoff after a successful dial
ResetBackoff(b, cfgBase) == BaseBackoff(cfgBase)

\* `if backoff < 30*time.Second { backoff *= 2 }`
NextBackoff(b) == IF b < BackoffCap THEN b * 2 ELSE b

\* a loop that does not look at c.closed
LoopCondMut(c) == TRUE

\* the condition `!c.closed.Load()` of the for loops
LoopCond(c) == ~c

\* a loop that goes from a successful dial straight to readLoop
AfterDialOKMut == "rlget"

\* where loop goes after a successful dial: the call of onUp
AfterDialOK == "up"

\* the zero time.Time
ZeroTime == <<0, 0, "none">>

NoHealth == [Up |-> FALSE, LastChangeTs |-> ZeroTime, RxMsgs |-> 0, TxMsgs |-> 0,
             Errs |-> 0, LastEchoSTAN |-> 0, LastEchoAt |-> 0]

NoSnap == [Up |-> FALSE, LastChangeTs |-> ZeroTime, UpAt |-> ZeroTime, n |-> 0]

\* the frames the upstream sends: an echo response as simnet builds it, and
\* a frame that Unpack refuses
EchoResponseFrame ==
  Pack(WithFields(New(Mti0810),
                  {<<11, <<48, 48, 48, 48, 48, 55>>>>, <<70, Str301>>,
                   <<7, FormatTime([mo |-> 1, d |-> 2, h |-> 3, mi |-> 4, s |-> 5])>>}),
       0).out
ShortFrame == <<0, 1, 65>>
RxFrames == {EchoResponseFrame, ShortFrame}

\* the callers of Send: 0 is the echo ticker, the others are any goroutines
Senders == {1, 2}
Callers == {0} \cup Senders

\* nothing calls Send and the ticker is not started
UsersOff ==
  /\ spc = [s \in Callers |-> "off"]
  /\ sc = [s \in Callers |-> 0]
  /\ sres = [s \in Callers |-> "none"]
  /\ tpc = "off"
  /\ stan = 0
  /\ ticks = 0
  /\ tobs = FALSE

\* the Connector before Start, as the codec alone sees it
ConnIdle ==
  /\ base = 0
  /\ backoff = 0
  /\ lpc = "off"
  /\ closed = FALSE
  /\ conn = 0
  /\ nsock = 0
  /\ sockOpen = {}
  /\ cpc = "idle"
  /\ st = NoHealth
  /\ cb = "none"
  /\ cbPrev = "none"
  /\ fails = 0
  /\ slept = 0
  /\ grown = FALSE
  /\ lateDials = 0
  /\ endedBy = "none"
  /\ upOld = FALSE
  /\ upAt = ZeroTime
  /\ rxFrame = <<>>
  /\ snap = NoSnap
  /\ UsersOff

How(k, n) == [kind |-> k, n |-> n]

NoUnpack == [kind |-> "none", err |-> "", field |-> 0, msg |-> New(<<>>)]
NoPack == [err |-> "none", field |-> 0, out |-> <<>>]

Init ==
  /\ m = New(Mti0200)
  /\ packres = NoPack
  /\ buf = <<>>
  /\ how = How("none", 0)
  /\ unpackres = NoUnpack
  /\ pc = "build"
  /\ isEcho = "none"
  /\ stanIn = -1
  /\ ConnIdle

\* iso8583.New(mti)
DoNew ==
  /\ UNCHANGED nonCodecVars
  /\ pc = "build"
  /\ m.Fields = NoFields
  /\ \E mti \in MTIs : m' = New(mti)
  /\ packres' = NoPack
  /\ buf' = <<>>
  /\ how' = How("none", 0)
  /\ unpackres' = NoUnpack
  /\ pc' = "build"

\* m.Set(f, v)
DoSet ==
  /\ UNCHANGED nonCodecVars
  /\ pc = "build"
  /\ Cardinality(DOMAIN m.Fields) < MaxFields
  /\ \E f \in FieldNums \ DOMAIN m.Fields :
       \E v \in Values(f) : m' = SetField(m, f, v)
  /\ UNCHANGED <<packres, buf, how, unpackres, pc>>

\* m.Pack()
DoPack ==
  /\ UNCHANGED nonCodecVars
  /\ pc = "build"
  /\ \E first \in FirstChoices(m) :
       /\ packres' = Pack(m, first)
       /\ pc' = IF packres'.err = "" THEN "packed" ELSE "packfail"
       /\ buf' = packres'.out
       /\ how' = How(IF packres'.err = "" THEN "pack" ELSE "none", 0)
  /\ UNCHANGED <<m, unpackres>>

\* p = append(p, 'X', ...); PutUint16(p[:2], uint16(len(p)-2))
AppendFixMLI ==
  /\ UNCHANGED nonCodecVars
  /\ pc = "packed"
  /\ how.kind = "pack"
  /\ \E k \in 1..MaxTamper :
       /\ LET p == buf \o Repeat(ChX, k)
          IN buf' = PutUint16(Len(p) - 2) \o SubSeq(p, 3, Len(p))
       /\ how' = How("append", k)
  /\ UNCHANGED <<m, packres, unpackres, pc>>

\* p = append(p, 'X', ...), the MLI left as it is
AppendTrailing ==
  /\ UNCHANGED nonCodecVars
  /\ pc = "packed"
  /\ how.kind = "pack"
  /\ \E k \in 1..MaxTamper :
       /\ buf' = buf \o Repeat(ChX, k)
       /\ how' = How("trailing", k)
  /\ UNCHANGED <<m, packres, unpackres, pc>>

\* p = p[:len(p)-k]: the last few bytes cut, or all but the first few
Truncate ==
  /\ UNCHANGED nonCodecVars
  /\ pc = "packed"
  /\ how.kind = "pack"
  /\ \E k \in (1..MaxTamper) \cup ((Len(buf) - MaxTamper)..Len(buf)) :
       /\ k >= 1 /\ k <= Len(buf)
       /\ buf' = SubSeq(buf, 1, Len(buf) - k)
       /\ how' = How("truncate", k)
  /\ UNCHANGED <<m, packres, unpackres, pc>>

\* sec |= 1 << (128 - n), or the same on the primary bitmap
SetBit ==
  /\ UNCHANGED nonCodecVars
  /\ pc = "packed"
  /\ how.kind = "pack"
  /\ \E n \in TamperBits :
       /\ n <= 64 \/ HasSecondary(buf)
       /\ buf' = WithBit(buf, n)
       /\ how' = How("setbit", n)
  /\ UNCHANGED <<m, packres, unpackres, pc>>

\* a frame arrives from the wire
Receive ==
  /\ UNCHANGED nonCodecVars
  /\ pc = "build"
  /\ m = New(Mti0200)
  /\ \E fields \in {s \in SUBSET RawFields : Cardinality(s) <= MaxFields} :
       \E sec \in {x \in BOOLEAN : x \/ \A f \in fields : f <= 64} :
         \E body \in Bodies(MaxChunks) :
           \E shape \in {<<0, 0>>, <<1, 0>>, <<0, 1>>} :
             /\ buf' = RawFrame(m.MTI, fields, sec, body, shape[1], shape[2])
             /\ how' = How("raw", shape[1])
  /\ pc' = "framed"
  /\ UNCHANGED <<m, packres, unpackres>>

\* iso8583.Unpack(buf)
DoUnpack ==
  /\ UNCHANGED nonCodecVars
  /\ pc \in {"packed", "framed"}
  /\ unpackres' = Unpack(buf)
  /\ pc' = "unpacked"
  /\ UNCHANGED <<m, packres, buf, how>>

\* Unpack returned a message: pack it again
Repack ==
  /\ UNCHANGED nonCodecVars
  /\ pc = "unpacked"
  /\ unpackres.kind = "ok"
  /\ m' = unpackres.msg
  /\ \E first \in FirstChoices(unpackres.msg) :
       packres' = Pack(unpackres.msg, first)
  /\ pc' = "repacked"
  /\ UNCHANGED <<buf, how, unpackres>>

Next ==
  \/ DoNew
  \/ DoSet
  \/ DoPack
  \/ AppendFixMLI
  \/ AppendTrailing
  \/ Truncate
  \/ SetBit
  \/ Receive
  \/ DoUnpack
  \/ Repack

Spec == Init /\ [][Next]_vars

\* ----------------------------------------------- the echo helpers at work
InitEcho ==
  /\ m \in EchoCandidates
  /\ packres = NoPack
  /\ buf = <<>>
  /\ how = How("none", 0)
  /\ unpackres = NoUnpack
  /\ pc = "build"
  /\ isEcho = "none"
  /\ stanIn = -1
  /\ ConnIdle

\* m := NewEchoRequest(sn)
DoNewEchoRequest ==
  /\ pc = "build"
  /\ stanIn = -1
  /\ isEcho = "none"
  /\ m = New(Mti0800)
  /\ \E sn \in Stans : \E t \in Times :
       /\ m' = NewEchoRequest(sn, t)
       /\ stanIn' = sn
  /\ UNCHANGED <<packres, buf, how, unpackres, pc, isEcho, snap, loopVars, ghostVars, userVars>>

\* IsEchoResponse(m)
DoIsEchoResponse ==
  /\ pc \in {"build", "repacked"}
  /\ isEcho = "none"
  /\ isEcho' = IF IsEchoResponse(m) THEN "true" ELSE "false"
  /\ UNCHANGED <<codecVars, stanIn, snap, loopVars, ghostVars, userVars>>

NextEcho ==
  \/ DoNewEchoRequest
  \/ DoIsEchoResponse
  \/ DoPack
  \/ DoUnpack
  \/ Repack

SpecEcho == InitEcho /\ [][NextEcho]_vars

\* ------------------------------------------------------ Connector at work
CodecIdle ==
  /\ m = New(Mti0200)
  /\ packres = NoPack
  /\ buf = <<>>
  /\ how = How("none", 0)
  /\ unpackres = NoUnpack
  /\ pc = "build"
  /\ isEcho = "none"
  /\ stanIn = -1

\* SetCallbacks and Start have been called on the new Connector
LoopStarted ==
  /\ backoff = BaseBackoff(base)
  /\ lpc = "loop"
  /\ closed = FALSE
  /\ conn = 0
  /\ nsock = 0
  /\ sockOpen = {}
  /\ cpc = "idle"
  /\ st = NoHealth
  /\ cb = "none"
  /\ cbPrev = "none"
  /\ fails = 0
  /\ slept = 0
  /\ grown = FALSE
  /\ lateDials = 0
  /\ endedBy = "none"
  /\ upOld = FALSE
  /\ upAt = ZeroTime
  /\ rxFrame = <<>>
  /\ snap = NoSnap

InitConn ==
  /\ CodecIdle
  /\ base \in Bases
  /\ LoopStarted
  /\ UsersOff

\* time.Now() in the callback k ("up" or "down"): the clock is read as the
\* place of the callback in the history of loop
Now(k) == <<nsock, fails, k>>

\* the callback k is emitted, onMsg with the frame f
Emit(k, f) ==
  /\ cb' = k
  /\ cbPrev' = cb
  /\ upOld' = IF k = "msg" THEN upOld ELSE st.Up
  /\ upAt' = IF k = "msg" THEN upAt ELSE Now(k)
  /\ rxFrame' = IF k = "msg" THEN f ELSE rxFrame

\* closeConn that leaves the socket as it is
closeConnMut == UNCHANGED <<conn, sockOpen>>

\* closeConn
closeConn ==
  /\ conn' = 0
  /\ sockOpen' = sockOpen \ {conn}

\* `for !c.closed.Load()` of loop
LoopCheck ==
  /\ lpc = "loop"
  /\ lpc' = IF LoopCond(closed) THEN "dial" ELSE "done"
  /\ UNCHANGED <<codecVars, echoVars, snap, userVars, ghostVars>>
  /\ UNCHANGED <<base, backoff, closed, conn, nsock, sockOpen, cpc, st>>

\* c.dial() is called and the dialler starts to connect
DialBegin ==
  /\ lpc = "dial"
  /\ lpc' = "dialing"
  /\ lateDials' = IF closed THEN Min({lateDials + 1, 2}) ELSE lateDials
  /\ UNCHANGED <<codecVars, echoVars, snap, userVars, cb, cbPrev, upOld, upAt, rxFrame, fails, slept, grown, endedBy>>
  /\ UNCHANGED <<base, backoff, closed, conn, nsock, sockOpen, cpc, st>>

\* the dial fails: dial returns the error
DialFail ==
  /\ lpc = "dialing"
  /\ fails < MaxFails \/ closed
  /\ lpc' = "faildown"
  /\ fails' = Min({fails + 1, MaxFails + 1})
  /\ slept' = 0
  /\ endedBy' = IF endedBy = "mli" THEN "error" ELSE endedBy
  /\ UNCHANGED <<codecVars, echoVars, snap, userVars, cb, cbPrev, upOld, upAt, rxFrame, grown, lateDials>>
  /\ UNCHANGED <<base, backoff, closed, conn, nsock, sockOpen, cpc, st>>

\* the dial succeeds: dial stores the socket in c.conn and returns nil
DialOK ==
  /\ lpc = "dialing"
  /\ nsock < MaxSocks
  /\ nsock' = nsock + 1
  /\ conn' = nsock + 1
  /\ sockOpen' = sockOpen \cup {nsock + 1}
  /\ lpc' = AfterDialOK
  /\ fails' = 0
  /\ slept' = 0
  /\ grown' = (backoff > BaseBackoff(base))
  /\ endedBy' = "none"
  /\ UNCHANGED <<codecVars, echoVars, snap, userVars, cb, cbPrev, upOld, upAt, rxFrame, lateDials>>
  /\ UNCHANGED <<base, backoff, closed, cpc, st>>

\* onDown(err) after a failed dial: `st.Conn.Up = false`
OnDownDial ==
  /\ lpc = "faildown"
  /\ st' = [st EXCEPT !.Up = FALSE]
  /\ Emit("down", <<>>)
  /\ lpc' = "faildownts"
  /\ UNCHANGED <<codecVars, echoVars, snap, userVars, fails, slept, grown, lateDials, endedBy>>
  /\ UNCHANGED <<base, backoff, closed, conn, nsock, sockOpen, cpc>>

\* time.Sleep(backoff) returns, the backoff is doubled, `continue`
Sleep ==
  /\ lpc = "sleep"
  /\ slept' = backoff
  /\ backoff' = NextBackoff(backoff)
  /\ lpc' = "loop"
  /\ UNCHANGED <<codecVars, echoVars, snap, userVars, cb, cbPrev, upOld, upAt, rxFrame, fails, grown, lateDials, endedBy>>
  /\ UNCHANGED <<base, closed, conn, nsock, sockOpen, cpc, st>>

\* the backoff is reset and onUp() is called: `st.Conn.Up = true`
OnUp ==
  /\ lpc = "up"
  /\ backoff' = ResetBackoff(backoff, base)
  /\ st' = [st EXCEPT !.Up = TRUE]
  /\ Emit("up", <<>>)
  /\ lpc' = "upts"
  /\ UNCHANGED <<codecVars, echoVars, snap, userVars, fails, slept, grown, lateDials, endedBy>>
  /\ UNCHANGED <<base, closed, conn, nsock, sockOpen, cpc>>

\* readLoop reads c.conn under the read lock
ReadLoopGet ==
  /\ lpc = "rlget"
  /\ lpc' = IF conn = 0 THEN "down" ELSE "rlloop"
  /\ endedBy' = IF conn = 0 THEN "nil" ELSE endedBy
  /\ UNCHANGED <<codecVars, echoVars, snap, userVars, cb, cbPrev, upOld, upAt, rxFrame, fails, slept, grown, lateDials>>
  /\ UNCHANGED <<base, backoff, closed, conn, nsock, sockOpen, cpc, st>>

\* `for !c.closed.Load()` of readLoop
ReadLoopCheck ==
  /\ lpc = "rlloop"
  /\ lpc' = IF LoopCond(closed) THEN "read" ELSE "down"
  /\ endedBy' = IF LoopCond(closed) THEN endedBy ELSE "flag"
  /\ UNCHANGED <<codecVars, echoVars, snap, userVars, cb, cbPrev, upOld, upAt, rxFrame, fails, slept, grown, lateDials>>
  /\ UNCHANGED <<base, backoff, closed, conn, nsock, sockOpen, cpc, st>>

\* the onMsg of the gateway on the frame f; a panic of Unpack ends onMsg
\* before Errs is counted
OnMsg(f) ==
  st' = [st EXCEPT !.RxMsgs = @ + 1,
                   !.Errs = IF Unpack(f).kind = "err" THEN @ + 1 ELSE @]

\* where the goroutine of loop is after onMsg(f): a panic that nothing
\* recovers ends the goroutine and the process
AfterOnMsg(f) == IF Unpack(f).kind = "panic" THEN "panic" ELSE "rlloop"

\* `mli <= 0 || mli > (64*1024)`
InvalidMLI(mli) == mli <= 0 \/ mli > 64 * 1024

\* the two MLI bytes the reader may get: those of the frames, and zero
MLIHeads == {<<0, 0>>} \cup {SubSeq(f, 1, 2) : f \in RxFrames}

\* a whole frame is read from the socket and given to onMsg
ReadFrame ==
  /\ lpc = "read"
  /\ nsock \in sockOpen
  /\ st.RxMsgs < MaxRx
  /\ \E f \in RxFrames :
       /\ ~InvalidMLI(Uint16(SubSeq(f, 1, 2)))
       /\ OnMsg(f)
       /\ Emit("msg", f)
       /\ lpc' = AfterOnMsg(f)
  /\ UNCHANGED <<codecVars, echoVars, snap, userVars, fails, slept, grown, lateDials, endedBy>>
  /\ UNCHANGED <<base, backoff, closed, conn, nsock, sockOpen, cpc>>

\* the two MLI bytes are read and the MLI is invalid: closeConn and return
\* the error `invalid MLI`
ReadInvalidMLI ==
  /\ lpc = "read"
  /\ nsock \in sockOpen
  /\ \E h \in MLIHeads : InvalidMLI(Uint16(h))
  /\ closeConn
  /\ lpc' = "down"
  /\ endedBy' = "mli"
  /\ UNCHANGED <<codecVars, echoVars, snap, userVars, cb, cbPrev, upOld, upAt, rxFrame, fails, slept, grown, lateDials>>
  /\ UNCHANGED <<base, backoff, closed, nsock, cpc, st>>

\* a read fails (socket closed, peer gone, idle timeout): closeConn and
\* return the error
ReadError ==
  /\ lpc = "read"
  /\ closeConn
  /\ lpc' = "down"
  /\ endedBy' = "error"
  /\ UNCHANGED <<codecVars, echoVars, snap, userVars, cb, cbPrev, upOld, upAt, rxFrame, fails, slept, grown, lateDials>>
  /\ UNCHANGED <<base, backoff, closed, nsock, cpc, st>>

\* onDown(err) after readLoop: `st.Conn.Up = false`
OnDown ==
  /\ lpc = "down"
  /\ st' = [st EXCEPT !.Up = FALSE]
  /\ Emit("down", <<>>)
  /\ lpc' = "downts"
  /\ UNCHANGED <<codecVars, echoVars, snap, userVars, fails, slept, grown, lateDials, endedBy>>
  /\ UNCHANGED <<base, backoff, closed, conn, nsock, sockOpen, cpc>>

\* the second statement of onUp and onDown: `st.Conn.LastChangeTs = time.Now()`
StampChange ==
  /\ lpc \in {"upts", "downts", "faildownts"}
  /\ st' = [st EXCEPT !.LastChangeTs = upAt]
  /\ lpc' = IF lpc = "upts" THEN "rlget"
            ELSE IF lpc = "downts" THEN "loop" ELSE "sleep"
  /\ UNCHANGED <<codecVars, echoVars, snap, userVars, ghostVars>>
  /\ UNCHANGED <<base, backoff, closed, conn, nsock, sockOpen, cpc>>

\* Close is called: c.closed.Store(true)
CloseStore ==
  /\ lpc # "panic"
  /\ cpc = "idle"
  /\ closed' = TRUE
  /\ cpc' = "closing"
  /\ UNCHANGED <<codecVars, echoVars, snap, userVars, ghostVars>>
  /\ UNCHANGED <<base, backoff, lpc, conn, nsock, sockOpen, st>>

\* the closeConn of Close, then Close returns
CloseConn ==
  /\ lpc # "panic"
  /\ cpc = "closing"
  /\ closeConn
  /\ cpc' = "returned"
  /\ UNCHANGED <<codecVars, echoVars, snap, userVars, ghostVars>>
  /\ UNCHANGED <<base, backoff, lpc, closed, nsock, st>>

LoopStep ==
  \/ LoopCheck
  \/ DialBegin
  \/ DialFail
  \/ DialOK
  \/ OnDownDial
  \/ Sleep
  \/ OnUp
  \/ ReadLoopGet
  \/ ReadLoopCheck
  \/ ReadFrame
  \/ ReadInvalidMLI
  \/ ReadError
  \/ OnDown
  \/ StampChange

CloseStep ==
  \/ CloseStore
  \/ CloseConn

NextConn ==
  \/ LoopStep
  \/ CloseStep

SpecConn == InitConn /\ [][NextConn]_vars

\* the scheduler runs every goroutine that can take a step
FairConn == SpecConn /\ WF_vars(LoopStep) /\ WF_vars(CloseStep)

\* ------------------------------------------------- frames Unpack aborts on
\* a frame whose DE48 carries the LLLVAR prefix "-01"
HostileFrames == {RawFrame(Mti0200, {48}, FALSE, <<ChMinus, Ch0, Ch1>>, 0, 0)}

\* a whole frame of a hostile or faulty upstream is read and given to onMsg
ReadHostile ==
  /\ lpc = "read"
  /\ nsock \in sockOpen
  /\ st.RxMsgs < MaxRx
  /\ \E f \in HostileFrames :
       /\ ~InvalidMLI(Uint16(SubSeq(f, 1, 2)))
       /\ OnMsg(f)
       /\ Emit("msg", f)
       /\ lpc' = AfterOnMsg(f)
  /\ UNCHANGED <<codecVars, echoVars, snap, userVars, fails, slept, grown, lateDials, endedBy>>
  /\ UNCHANGED <<base, backoff, closed, conn, nsock, sockOpen, cpc>>

NextRx ==
  \/ LoopStep
  \/ CloseStep
  \/ ReadHostile

SpecRx == InitConn /\ [][NextRx]_vars

\* ------------------------------------------------------ the admin surface
MaxReads == 1

\* GET /connections: json.NewEncoder(w).Encode(st.Conn), no lock taken
ReadHealth ==
  /\ lpc # "panic"
  /\ snap.n < MaxReads
  /\ snap' = [Up |-> st.Up, LastChangeTs |-> st.LastChangeTs, UpAt |-> upAt,
              n |-> snap.n + 1]
  /\ UNCHANGED <<codecVars, echoVars, loopVars, ghostVars, userVars>>

NextAdmin ==
  \/ LoopStep
  \/ CloseStep
  \/ ReadHealth

SpecAdmin == InitConn /\ [][NextAdmin]_vars

\* ------------------------------------------------------------------- Send
\* two goroutines call Send at any time, once each, on a started Connector
InitSend ==
  /\ CodecIdle
  /\ base = 0
  /\ LoopStarted
  /\ spc = [s \in Callers |-> IF s \in Senders THEN "call" ELSE "off"]
  /\ sc = [s \in Callers |-> 0]
  /\ sres = [s \in Callers |-> "none"]
  /\ tpc = "off"
  /\ stan = 0
  /\ ticks = 0
  /\ tobs = FALSE

\* Send reads c.conn under the read lock; nil: return `not connected`
SendGet ==
  /\ \E s \in Callers :
       /\ spc[s] = "call"
       /\ sc' = [sc EXCEPT ![s] = conn]
       /\ spc' = [spc EXCEPT ![s] = IF conn = 0 THEN "ret" ELSE "got"]
       /\ sres' = [sres EXCEPT ![s] = IF conn = 0 THEN "not connected" ELSE "none"]
  /\ UNCHANGED <<codecVars, echoVars, snap, loopVars, ghostVars, tickVars>>

\* Send sets the write deadline and enters conn.Write
SendWriteBegin ==
  /\ \E s \in Callers :
       /\ spc[s] = "got"
       /\ spc' = [spc EXCEPT ![s] = "write"]
  /\ UNCHANGED <<codecVars, echoVars, snap, loopVars, ghostVars, tickVars, sc, sres>>

\* conn.Write returns and Send returns its error
SendWriteEnd ==
  /\ \E s \in Callers :
       /\ spc[s] = "write"
       /\ spc' = [spc EXCEPT ![s] = "ret"]
       /\ sc' = [sc EXCEPT ![s] = 0]
       /\ \E r \in (IF sc[s] \in sockOpen THEN {"ok", "write error"}
                    ELSE {"write error"}) :
            sres' = [sres EXCEPT ![s] = r]
  /\ UNCHANGED <<codecVars, echoVars, snap, loopVars, ghostVars, tickVars>>

SendStep ==
  \/ SendGet
  \/ SendWriteBegin
  \/ SendWriteEnd

NextSend ==
  \/ LoopStep
  \/ CloseStep
  \/ SendStep

SpecSend == InitSend /\ [][NextSend]_vars

\* ------------------------------------------------------------ echo ticker
MaxTicks == 2

\* `time.Now().Unix() % 1000000`
StanSeeds == {999998}

\* the clock at the k-th tick
TickTime(k) == [mo |-> 1, d |-> 2, h |-> 3, mi |-> 4, s |-> k % 60]

\* a ticker that sends whatever st.Conn.Up is
ShouldSkipMut(up) == FALSE

\* `if !st.Conn.Up { continue }`
ShouldSkip(up) == ~up

\* a ticker without the `continue` after a failed Send
AfterSendMut(h, res, sn, now) ==
  IF res # "ok"
    THEN [h EXCEPT !.Errs = @ + 1, !.LastEchoSTAN = sn, !.LastEchoAt = now,
                   !.TxMsgs = @ + 1]
    ELSE [h EXCEPT !.LastEchoSTAN = sn, !.LastEchoAt = now, !.TxMsgs = @ + 1]

\* st.Conn after conn.Send(b) returned res for the echo with STAN sn
AfterSend(h, res, sn, now) ==
  IF res # "ok"
    THEN [h EXCEPT !.Errs = @ + 1]
    ELSE [h EXCEPT !.LastEchoSTAN = sn, !.LastEchoAt = now, !.TxMsgs = @ + 1]

\* the gateway: Connector started with RetryBacko 2 s, ticker running
InitGw ==
  /\ CodecIdle
  /\ base = 2
  /\ LoopStarted
  /\ spc = [s \in Callers |-> "off"]
  /\ sc = [s \in Callers |-> 0]
  /\ sres = [s \in Callers |-> "none"]
  /\ tpc = "idle"
  /\ stan \in StanSeeds
  /\ ticks = 0
  /\ tobs = FALSE

\* a tick: st.Conn.Up is read without synchronisation (the value read is the
\* current one or the one before the last write); if up, the STAN is advanced,
\* the echo request is built and packed and conn.Send(b) is called
Tick ==
  /\ tpc = "idle"
  /\ ticks < MaxTicks
  /\ ticks' = ticks + 1
  /\ \E up \in {st.Up, upOld} :
       /\ tobs' = up
       /\ IF ShouldSkip(up)
            THEN UNCHANGED <<stan, st, spc, tpc>>
            ELSE /\ stan' = stan + 1
                 /\ IF Pack(NewEchoRequest(stan + 1, TickTime(ticks + 1)), 0).err # ""
                      THEN /\ st' = [st EXCEPT !.Errs = @ + 1]
                           /\ UNCHANGED <<spc, tpc>>
                      ELSE /\ spc' = [spc EXCEPT ![0] = "call"]
                           /\ tpc' = "send"
                           /\ st' = st
  /\ UNCHANGED <<codecVars, echoVars, snap, ghostVars, sc, sres>>
  /\ UNCHANGED <<base, backoff, lpc, closed, conn, nsock, sockOpen, cpc>>

\* conn.Send(b) has returned: count the error, or record the echo
TickEnd ==
  /\ tpc = "send"
  /\ spc[0] = "ret"
  /\ st' = AfterSend(st, sres[0], stan, ticks)
  /\ spc' = [spc EXCEPT ![0] = "off"]
  /\ tpc' = "idle"
  /\ UNCHANGED <<codecVars, echoVars, snap, ghostVars, sc, sres, stan, ticks, tobs>>
  /\ UNCHANGED <<base, backoff, lpc, closed, conn, nsock, sockOpen, cpc>>

\* `case <-stop: return`, stop being closed just before conn.Close()
TickStop ==
  /\ tpc = "idle"
  /\ cpc # "idle"
  /\ tpc' = "stopped"
  /\ UNCHANGED <<codecVars, echoVars, snap, loopVars, ghostVars, sendVars, stan, ticks, tobs>>

TickStep ==
  \/ Tick
  \/ TickEnd
  \/ TickStop

NextGw ==
  \/ LoopStep
  \/ CloseStep
  \/ SendStep
  \/ TickStep

SpecGw == InitGw /\ [][NextGw]_vars

\* ------------------------------------------------------------- properties
\* the constraints of the field specification on one field value
FieldValid(f, v) ==
  /\ f \in CommonSpecNums
  /\ CASE CommonSpec[f].Codec = FmtLLVAR -> Len(v) <= 99
       [] CommonSpec[f].Codec = FmtLLLVAR -> Len(v) <= 999
       [] OTHER -> Len(v) = CommonSpec[f].Len

\* a message that satisfies the constraints of the field specification
ValidPerSpec(msg) ==
  /\ Len(msg.MTI) = 4
  /\ \A i \in 1..Len(msg.MTI) : IsDigit(msg.MTI[i])
  /\ \A f \in DOMAIN msg.Fields : FieldValid(f, msg.Fields[f])

\* the number of bytes the fields of a message take on the wire
RECURSIVE EncLen(_, _)
EncLen(msg, fs) ==
  IF fs = {} THEN 0
  ELSE LET f == Min(fs)
           w == CASE CommonSpec[f].Codec = FmtLLVAR -> 2
                  [] CommonSpec[f].Codec = FmtLLLVAR -> 3
                  [] OTHER -> 0
       IN w + Len(msg.Fields[f]) + EncLen(msg, fs \ {f})

\* Pack has just run on m
JustPacked == packres.err # "none"

\* C1 (as claimed): every message that satisfies the field specification is
\* packed without error, and unpacking the packed bytes gives the message back.
C1_PackUnpackRoundTrip ==
  (JustPacked /\ ValidPerSpec(m)) =>
     /\ packres.err = ""
     /\ (pc = "unpacked" /\ how.kind = "pack") => unpackres = UnpackOK(m)

\* C2 (as claimed): packing the message Unpack returned for a frame gives the
\* frame back, byte for byte.
C2_UnpackPackRoundTrip ==
  pc = "repacked" => (packres.err = "" /\ packres.out = buf)

\* C3 (as claimed): in an otherwise valid message, an LLVAR field of the field
\* specification packs at length 99 and fails at length 100, and an LLLVAR
\* field packs at length 999 and fails at length 1000.
C3_VarLengthBounds ==
  JustPacked =>
    \A f \in (DOMAIN m.Fields) \cap CommonSpecNums :
      LET others == \A g \in (DOMAIN m.Fields) \ {f} : FieldValid(g, m.Fields[g])
          n == Len(m.Fields[f])
      IN (Len(m.MTI) = 4 /\ others) =>
           /\ (CommonSpec[f].Codec = FmtLLVAR /\ n = 100) => packres.err # ""
           /\ (CommonSpec[f].Codec = FmtLLVAR /\ n = 99) => packres.err = ""
           /\ (CommonSpec[f].Codec = FmtLLLVAR /\ n = 1000) => packres.err # ""
           /\ (CommonSpec[f].Codec = FmtLLLVAR /\ n = 999) => packres.err = ""

\* C4: whenever Pack succeeds, the first two bytes of its output, read as a
\* big-endian 16-bit number, are the length of the output minus 2.
C4_MLIEqualsLength ==
  packres.err = "" =>
    /\ Len(packres.out) >= 2
    /\ Uint16(SubSeq(packres.out, 1, 2)) = Len(packres.out) - 2

C4_Witness == packres.err = "" /\ Len(packres.out) > 2 + 255

\* C5: whenever Pack succeeds, primary bit 1 is set and an 8-byte secondary
\* bitmap follows exactly when the message has a field above 64, and bit N of
\* the bitmaps is set exactly when field N is in the message.
C5_Bitmaps ==
  packres.err = "" =>
    LET out == packres.out
        fs == DOMAIN m.Fields
        high == \E f \in fs : f > 64
        primary == Uint64(SubSeq(out, 7, 14))
    IN /\ 1 \in primary <=> high
       /\ \A n \in 2..64 : n \in primary <=> n \in fs
       /\ Len(out) = 2 + 4 + 8 + (IF high THEN 8 ELSE 0) + EncLen(m, fs)
       /\ high => \A n \in 65..128 :
                    (n - 64) \in Uint64(SubSeq(out, 15, 22)) <=> n \in fs

C5_Witness ==
  /\ packres.err = ""
  /\ \E f \in DOMAIN m.Fields : f > 64
  /\ \E f \in DOMAIN m.Fields : f <= 64

\* C6: Pack returns an error and no bytes when the MTI is not 4 long, when a
\* field number is outside 2..128, or when a fixed-length field of the field
\* specification has a value of another length; so it succeeds only on
\* messages that pass the three checks.
C6_PackValidation ==
  LET invalid ==
        \/ Len(m.MTI) # 4
        \/ \E f \in DOMAIN m.Fields : f < 2 \/ f > 128
        \/ \E f \in (DOMAIN m.Fields) \cap CommonSpecNums :
             /\ CommonSpec[f].Codec \in {FmtFixedNum, FmtFixedAns}
             /\ Len(m.Fields[f]) # CommonSpec[f].Len
  IN (JustPacked /\ invalid) => (packres.err # "" /\ packres.out = <<>>)

C6_Witness ==
  /\ pc = "packfail"
  /\ Len(m.MTI) = 4
  /\ 1 \in DOMAIN m.Fields
  /\ packres.err = "unsupported field"

\* C7: a packed frame with bytes appended and the MLI raised by as many is
\* rejected with `extra bytes at end`; Unpack returns a message only when the
\* fields the bitmaps name take exactly the bytes the MLI declares.
C7_ExtraBytes ==
  pc = "unpacked" =>
    /\ how.kind = "append" => unpackres = UnpackErr("extra bytes at end", 0)
    /\ unpackres.kind = "ok" =>
         Uint16(SubSeq(buf, 1, 2)) =
           4 + 8 + (IF buf[7] >= 128 THEN 8 ELSE 0)
             + EncLen(unpackres.msg, DOMAIN unpackres.msg.Fields)

C7_Witness ==
  /\ pc = "unpacked"
  /\ how.kind = "append"
  /\ unpackres.err = "extra bytes at end"

C9_TruncatedRejected ==
  (pc = "unpacked" /\ how.kind = "truncate") => unpackres.kind = "err"

C9_Witness ==
  /\ pc = "unpacked"
  /\ how.kind = "truncate"
  /\ Len(buf) >= 14
  /\ unpackres.err = "incomplete message"

\* the field numbers with a case in the switch of Unpack
Codecs == {7, 11, 48, 70, 102}

\* the frame has an MLI its length covers, an MTI and its bitmaps
HeaderOK(b) ==
  /\ Len(b) >= 2
  /\ ~Incomplete(b, Uint16(SubSeq(b, 1, 2)))
  /\ Uint16(SubSeq(b, 1, 2)) >= 12
  /\ b[7] >= 128 => Uint16(SubSeq(b, 1, 2)) >= 20

\* C10: when the lowest bit set for a field without a codec is N, and the
\* fields below N that are present decode, Unpack fails with `field N not
\* implemented` and returns no message.
C10_UnknownField ==
  (pc = "unpacked" /\ HeaderOK(buf)) =>
    LET p == Slice(buf, 2, 2 + Uint16(SubSeq(buf, 1, 2)))
        primary == Uint64(Slice(p, 4, 12))
        sec == 1 \in primary
        secondary == IF sec THEN Uint64(Slice(p, 12, 20)) ELSE {}
        unknown == {n \in 2..128 : Present(primary, secondary, n) /\ n \notin Codecs}
    IN unknown # {} =>
         (UnpackLoop(p, primary, secondary, 2, Min(unknown) - 1,
                     IF sec THEN 20 ELSE 12, New(Slice(p, 0, 4))).kind = "ok"
            => unpackres = UnpackErr("field not implemented in skeleton",
                                     Min(unknown)))

C10_Witness ==
  /\ pc = "unpacked"
  /\ how.kind = "setbit"
  /\ how.n = 100
  /\ 11 \in DOMAIN m.Fields
  /\ unpackres.err = "field not implemented in skeleton"
  /\ unpackres.field = 100

\* C11: IsEchoResponse(m) is true exactly when the MTI of m is 0810, DE70 is
\* present with the value 301 and DE11 is present, whatever its value.
C11_IsEchoResponse ==
  isEcho # "none" =>
    (isEcho = "true" <=>
       /\ m.MTI = <<48, 56, 49, 48>>
       /\ 70 \in DOMAIN m.Fields
       /\ m.Fields[70] = <<51, 48, 49>>
       /\ 11 \in DOMAIN m.Fields)

C11_Witness ==
  /\ isEcho = "false"
  /\ m.MTI = <<48, 56, 49, 48>>
  /\ 70 \in DOMAIN m.Fields
  /\ m.Fields[70] = <<51, 48, 49>>
  /\ 11 \notin DOMAIN m.Fields

\* C12: for stan >= 0, NewEchoRequest(stan) has MTI 0800, a DE11 of exactly six
\* digits whose value is stan mod 10^6, DE70 = 301 and a DE7 of 10 characters;
\* Pack accepts it and Unpack of the packed bytes returns the same message.
C12_NewEchoRequest ==
  stanIn # -1 =>
    /\ m.MTI = <<48, 56, 48, 48>>
    /\ DOMAIN m.Fields = {7, 11, 70}
    /\ Len(m.Fields[11]) = 6
    /\ \A i \in 1..Len(m.Fields[11]) : IsDigit(m.Fields[11][i])
    /\ DecValue(m.Fields[11]) = stanIn % 1000000
    /\ m.Fields[70] = <<51, 48, 49>>
    /\ Len(m.Fields[7]) = 10
    /\ pc # "packfail"
    /\ pc \in {"unpacked", "repacked"} => unpackres = UnpackOK(m)

C12_Witness ==
  /\ stanIn > 1000000
  /\ pc = "unpacked"
  /\ unpackres.kind = "ok"
  /\ unpackres.msg.Fields[11] = <<48, 48, 48, 48, 48, 55>>

\* C13: callbacks are ordered per connection session: an on_message is only
\* ever emitted right after the on_up or an on_message of its session, never
\* first and never after an on_down with no on_up in between; an on_up only
\* opens a session, so every on_down follows the last on_message of its session.
C13_CallbackOrder ==
  /\ cb = "msg" => cbPrev \in {"up", "msg"}
  /\ cb = "up" => cbPrev \in {"none", "down"}

C13_Witness ==
  /\ nsock = 2
  /\ cb = "down"
  /\ cbPrev = "msg"
  /\ st.RxMsgs = 1

\* C14: the sleep after the k-th consecutive dial failure is
\* min(base * 2^(k-1), 30 s), so no sleep is longer than 30 s.
C14_BackoffCapped ==
  (slept # 0 /\ fails \in 1..MaxFails) =>
    /\ slept = Min({(IF base <= 0 THEN 2 ELSE base) * Pow2(fails - 1), 30})
    /\ slept <= 30

\* C15: the first dial failure after a successful dial is followed by a sleep
\* of exactly the base backoff, whatever the backoff was before that success.
C15_BackoffReset ==
  (nsock > 0 /\ fails = 1 /\ slept # 0) =>
    slept = (IF base <= 0 THEN 2 ELSE base)

C15_Witness ==
  /\ nsock > 0
  /\ grown
  /\ fails = 1
  /\ slept = 7

\* C17 as stated: once the closed flag is set, the loop begins no dial.
C17_NoDialBeginsAfterClose ==
  [][closed => ~(lpc # "dialing" /\ lpc' = "dialing")]_vars

\* C17 amended: once the closed flag is set, the loop begins at most one more
\* dial (the one whose closed check came before the flag), and it terminates.
C17_LoopTerminates ==
  /\ [](lateDials <= 1)
  /\ closed ~> (lpc = "done")

C17_Witness ==
  /\ closed
  /\ lpc = "done"
  /\ lateDials = 1
  /\ nsock = 1

\* the Connector holds no live socket: Close has returned, or no dial has
\* succeeded yet, or loop is in its backoff sleep, or a read or framing
\* error has closed the socket and no dial has succeeded since
NoLiveSocket ==
  \/ cpc = "returned"
  \/ nsock = 0
  \/ lpc = "sleep"
  \/ endedBy \in {"error", "mli"}

\* C16: a Send that finds the Connector without a live socket returns
\* `not connected` and writes nothing.
C16_SendNotConnected ==
  [][\A s \in Senders :
       (NoLiveSocket /\ spc[s] = "call" /\ spc'[s] # "call") =>
         (spc'[s] = "ret" /\ sres'[s] = "not connected")]_vars

\* C18: the writes of two callers of Send never overlap.
C18_WritesSerialized ==
  Cardinality({s \in Senders : spc[s] = "write"}) <= 1

\* C19: a tick that observes Health.up = false does nothing: no Send is
\* called, the STAN counter, tx_msgs, errs, last_echo_stan and last_echo_at
\* keep their values; while no dial has ever succeeded, tx_msgs = 0.
C19_SkippedTick ==
  /\ [][(ticks' = ticks + 1 /\ tobs' = FALSE) =>
          (stan' = stan /\ st' = st /\ spc' = spc /\ tpc' = tpc)]_vars
  /\ [](nsock = 0 => st.TxMsgs = 0)

C19_Witness ==
  /\ nsock = 0
  /\ fails >= 1
  /\ ticks >= 2
  /\ tobs = FALSE
  /\ stan = 999998
  /\ st.TxMsgs = 0

\* C20: a tick that attempts an echo changes exactly one counter. When its
\* Send returns without error tx_msgs grows by 1, last_echo_stan and
\* last_echo_at are set and errs is unchanged; when its Send fails (also with
\* `not connected`) errs grows by 1 and tx_msgs, last_echo_stan, last_echo_at
\* are unchanged. No other step of the tick touches the Health record.
C20_TickCounts ==
  [][/\ (tpc = "send" /\ tpc' # "send") =>
          \/ /\ sres[0] = "ok"
             /\ st'.TxMsgs = st.TxMsgs + 1
             /\ st'.LastEchoSTAN = stan
             /\ st'.LastEchoAt = ticks
             /\ st'.Errs = st.Errs
          \/ /\ sres[0] # "ok"
             /\ st'.Errs = st.Errs + 1
             /\ st'.TxMsgs = st.TxMsgs
             /\ st'.LastEchoSTAN = st.LastEchoSTAN
             /\ st'.LastEchoAt = st.LastEchoAt
     /\ (tpc = "idle" /\ tpc' = "send") => st' = st
     /\ (tpc = "send" /\ tpc' = "send" /\ spc' # spc) => st' = st]_vars

C20_Witness ==
  /\ tpc = "idle"
  /\ ticks = 2
  /\ sres[0] = "not connected"
  /\ st.TxMsgs = 1
  /\ st.Errs = 1
  /\ st.RxMsgs = 0
  /\ st.LastEchoAt = 1

\* C26: Unpack is total: on every byte sequence it returns a message or an
\* error value and never aborts with an out-of-range slice.
C26_UnpackTotal ==
  unpackres.kind \in {"none", "ok", "err"}

\* C27: once Close has returned and the reconnect loop has exited, the
\* Connector holds no socket: c.conn is nil and no dialled socket is open.
C27_NoSocketAfterClose ==
  (cpc = "returned" /\ lpc = "done") => (conn = 0 /\ sockOpen = {})

\* C24: a sleep of at least the base backoff separates the end of a session
\* that a framing or read error ended from the next dial attempt.
C24_SleepBeforeRedial ==
  (lpc = "dialing" /\ nsock > 0 /\ fails = 0 /\ endedBy \in {"error", "mli"}) =>
    slept >= (IF base <= 0 THEN 2 ELSE base)

\* C25: last_echo_stan is the STAN truncated to six digits, so it always lies
\* in 0..999999.
C25_LastEchoStanSixDigits ==
  st.LastEchoSTAN \in 0..999999

\* C23: when the reader gets an invalid MLI (MLI = 0) or a read fails, no
\* frame is delivered to on_message, the socket is closed and c.conn is
\* cleared; on_down is then emitted exactly once before the loop dials again.
C23_BadReadEndsSession ==
  /\ [][(lpc = "read" /\ endedBy' \in {"error", "mli"}) =>
          /\ cb' = cb
          /\ st' = st
          /\ conn' = 0
          /\ nsock \notin sockOpen'
          /\ lpc' = "down"]_vars
  /\ []((lpc = "dialing" /\ fails = 0 /\ endedBy \in {"error", "mli"}) =>
          (cb = "down" /\ cbPrev \in {"up", "msg"}))

C23_Witness ==
  /\ endedBy = "mli"
  /\ lpc = "dialing"
  /\ nsock = 1
  /\ sockOpen = {}
  /\ cb = "down"
  /\ cbPrev = "msg"

\* C21: every frame delivered to on_message adds exactly 1 to rx_msgs; when
\* the frame does not decode, errs grows by exactly 1 and the connection is
\* kept: socket open, c.conn unchanged, no on_down, Health.up unchanged, and
\* the reader goes on to the next frame.
C21_OnMessageCounts ==
  [][st'.RxMsgs # st.RxMsgs =>
       /\ st'.RxMsgs = st.RxMsgs + 1
       /\ cb' = "msg"
       /\ Unpack(rxFrame').kind = "ok" => st'.Errs = st.Errs
       /\ Unpack(rxFrame').kind # "ok" =>
            /\ st'.Errs = st.Errs + 1
            /\ conn' = conn
            /\ sockOpen' = sockOpen
            /\ st'.Up = st.Up
            /\ lpc' = "rlloop"]_vars

\* C22: a reader of the Health record never sees the `up` written by one
\* transition together with the `last_change_ts` written by another.
C22_ConsistentSnapshot ==
  snap.n > 0 => snap.LastChangeTs = snap.UpAt

====
